---- MODULE Spec2Model ----
(***************************************************************************)
(* A model of the chunked song-recognition pipeline of ShazamIO:           *)
(*   testyboy.py  the command-line pipeline (main)                         *)
(*   test_ui.py   the PyQt front-end (App)                                 *)
(*   clean.py     the stand-alone metadata extractor                       *)
(*                                                                         *)
(* Python values are modelled as follows.  A dict is a function whose      *)
(* domain is the set of its keys (the empty dict is <<>>), a list is a     *)
(* sequence, a str is a string.  None is the record None below where an    *)
(* object is expected and the string NoneText where a text is expected.    *)
(* A call that may raise returns Ok(v) or Raise(e).                        *)
(***************************************************************************)
EXTENDS Integers, Sequences, FiniteSets, TLC

VARIABLES
    \* ---- the pipeline (testyboy.main / App.process_pipeline)
    prog,        \* "cli" (testyboy.py) or "ui" (test_ui.py)
    pc,          \* position of the run
    url,         \* the URL typed by the user
    audio_len,   \* len(audio) in milliseconds
    chunks,      \* chunk_paths returned by split_audio_into_chunks
    outcomes,    \* what shazam.recognize did for each window so far
    results,     \* the local list `results`
    resultWin,   \* window index that produced each element of results
    tracks,      \* extracted_info (cli) / self.tracks (ui)
    tracksSrc,   \* index in results of the outcome behind each entry of tracks
    track_list,  \* the items of the QTreeWidget
    status,      \* status_label / what the run printed: [state, msg]
    \* ---- deduplicate_results called on its own
    d_pc, d_in, d_out, d_out2, seen,
    \* ---- the three extract_track_info
    e_pc, e_in, e_cli, e_clean, e_ui,
    \* ---- split_audio_into_chunks
    s_pc, s_D, s_w, s_cli, s_ui,
    \* ---- App.on_track_click / App.slskd_search
    q_pc, q_name, q_transport, q_candidates, results_text,
    \* ---- concurrent process_pipeline threads of one App
    t_pc, t_tracks, t_iter

pipeVars   == <<prog, pc, url, audio_len, chunks, outcomes, results, resultWin,
                tracks, tracksSrc, track_list, status>>
dedupVars  == <<d_pc, d_in, d_out, d_out2, seen>>
extVars    == <<e_pc, e_in, e_cli, e_clean, e_ui>>
splitVars  == <<s_pc, s_D, s_w, s_cli, s_ui>>
searchVars == <<q_pc, q_name, q_transport, q_candidates, results_text>>
uiVars     == <<t_pc, t_tracks, t_iter>>
vars == <<pipeVars, dedupVars, extVars, splitVars, searchVars, uiVars>>

----------------------------------------------------------------------------
(* Python values *)

None     == [NoneType |-> TRUE]
NoneText == "None"

\* bool(x) of None or of a dict
Truthy(x) == x # None /\ DOMAIN x # {}

\* d.get(k, default)
Get(d, k, default) == IF k \in DOMAIN d THEN d[k] ELSE default

Ok(v)    == [exc |-> "", val |-> v]
Raise(e) == [exc |-> e, val |-> <<>>]

SeqsUpTo(S, n) == UNION {[1..k -> S] : k \in 0..n}

----------------------------------------------------------------------------
(* deduplicate_results (testyboy.py) *)

\* a module-level `seen` would hold what the previous invocation saw
StaleSeen == seen

\* line 135: seen = set()
NewSeen == {}

\* One pass of the loop of lines 137-141 over results[i..], from the set
\* seenSoFar and the list kept so far.  result['track']['key'] raises
\* KeyError when the track, a non-empty dict, has no 'key'.
RECURSIVE DedupLoop(_, _, _, _)
DedupLoop(rs, i, seenSoFar, kept) ==
    IF i > Len(rs) THEN [exc |-> "", val |-> kept, seen |-> seenSoFar]
    ELSE LET result == rs[i] IN
         IF ~Truthy(result) THEN DedupLoop(rs, i + 1, seenSoFar, kept)
         ELSE IF ~Truthy(Get(result, "track", None))
              THEN DedupLoop(rs, i + 1, seenSoFar, kept)
         ELSE IF "key" \notin DOMAIN result["track"]
              THEN [exc |-> "KeyError: 'key'", val |-> <<>>, seen |-> seenSoFar]
         ELSE IF result["track"]["key"] \notin seenSoFar
              THEN DedupLoop(rs, i + 1, seenSoFar \cup {result["track"]["key"]},
                             Append(kept, i))
         ELSE DedupLoop(rs, i + 1, seenSoFar, kept)

\* the indices of `rs` that deduplicate_results keeps (or the exception),
\* with the set `seen` as the invocation leaves it
DedupRun(rs) == DedupLoop(rs, 1, NewSeen, <<>>)

deduplicate_results(rs) ==
    LET r == DedupRun(rs) IN
    IF r.exc # "" THEN Raise(r.exc)
    ELSE Ok([j \in 1..Len(r.val) |-> rs[r.val[j]]])

----------------------------------------------------------------------------
(* extract_track_info: testyboy.py, clean.py and test_ui.py *)

\* lines 110-114 of testyboy.py for one key: every entry whose title is the
\* key assigns the variable again
RECURSIVE ScanMetadata(_, _, _, _, _)
ScanMetadata(metadata, j, key, default, cur) ==
    IF j > Len(metadata) THEN cur
    ELSE ScanMetadata(metadata, j + 1, key, default,
             IF Get(metadata[j], "title", NoneText) = key
             THEN Get(metadata[j], "text", default)
             ELSE cur)

\* lines 108-109 of testyboy.py: the loop over the sections
RECURSIVE ScanSections(_, _, _, _, _)
ScanSections(sections, i, key, default, cur) ==
    IF i > Len(sections) THEN cur
    ELSE ScanSections(sections, i + 1, key, default,
             ScanMetadata(Get(sections[i], "metadata", <<>>), 1, key, default, cur))

\* testyboy.extract_track_info(entry, timestamp)
extract_track_info(entry, timestamp) ==
    LET track_info == Get(entry, "track", <<>>)
        sections   == Get(track_info, "sections", <<>>)
    IN  ("Track Name"    :> Get(track_info, "title", "Unknown Track Name"))
     @@ ("Artist"        :> Get(track_info, "subtitle", "Unknown Artist"))
     @@ ("Album"         :> ScanSections(sections, 1, "Album", "Unknown Album",
                                         "Unknown Album"))
     @@ ("Genre"         :> Get(Get(track_info, "genres", <<>>), "primary",
                                "Unknown Genre"))
     @@ ("Year Released" :> ScanSections(sections, 1, "Released", "Unknown Year",
                                         "Unknown Year"))
     @@ ("Timestamp"     :> timestamp)

\* clean.py, next((meta.get("text") for meta in ... if meta.get("title") == key),
\* default): the text of the first entry with the key, None when it has no text
RECURSIVE NextMeta(_, _, _, _)
NextMeta(metadata, j, key, default) ==
    IF j > Len(metadata) THEN default
    ELSE IF Get(metadata[j], "title", NoneText) = key
         THEN Get(metadata[j], "text", NoneText)
         ELSE NextMeta(metadata, j + 1, key, default)

\* clean.py, lines 16-35 for one item whose track is truthy.
\* track.get("sections", [{}])[0] raises IndexError on an empty list.
clean_extract_item(track) ==
    LET sections == Get(track, "sections", << <<>> >>) IN
    IF Len(sections) = 0 THEN Raise("IndexError")
    ELSE LET metadata == Get(sections[1], "metadata", <<>>) IN
         Ok(  ("Artist"        :> Get(track, "subtitle", "Unknown Artist"))
           @@ ("Album"         :> NextMeta(metadata, 1, "Album", "Unknown Album"))
           @@ ("Track Name"    :> Get(track, "title", "Unknown Title"))
           @@ ("Genre"         :> Get(Get(track, "genres", <<>>), "primary",
                                      "Unknown Genre"))
           @@ ("Year Released" :> NextMeta(metadata, 1, "Released", "Unknown Year")))

\* clean.extract_track_info(data): the records of the items that have a track
RECURSIVE clean_extract_track_info(_)
clean_extract_track_info(data) ==
    IF data = <<>> THEN Ok(<<>>)
    ELSE LET track == Get(Head(data), "track", <<>>)
             rest  == clean_extract_track_info(Tail(data))
         IN  IF ~Truthy(track) THEN rest
             ELSE LET one == clean_extract_item(track) IN
                  IF one.exc # "" THEN one
                  ELSE IF rest.exc # "" THEN rest
                  ELSE Ok(<<one.val>> \o rest.val)

\* App.extract_track_info(entry, chunk_timestamp) of test_ui.py
ui_extract_track_info(entry, chunk_timestamp) ==
    LET track_info == Get(entry, "track", <<>>) IN
        ("Track Name" :> Get(track_info, "title", "Unknown"))
     @@ ("Artist"     :> Get(track_info, "subtitle", "Unknown"))
     @@ ("Timestamp"  :> chunk_timestamp)

----------------------------------------------------------------------------
(* format_time and split_audio_into_chunks: testyboy.py and test_ui.py *)

\* A text under construction is a sequence of pieces; Join writes it out.
RECURSIVE Join(_)
Join(pieces) == IF pieces = <<>> THEN "" ELSE Head(pieces) \o Join(Tail(pieces))

\* text.replace(old, new) where `old` is one of the pieces
Replace(pieces, old, new) ==
    [k \in 1..Len(pieces) |-> IF pieces[k] = old THEN new ELSE pieces[k]]

\* "%02d" % n and f"{n:02}" for n >= 0
Pad2(n) == IF n < 10 THEN "0" \o ToString(n) ELSE ToString(n)

\* str(timedelta(seconds=seconds)) as Python writes it: divmod by 60 twice
\* on the seconds within the day, the days in front when there are any.
str_timedelta(seconds) ==
    LET days == seconds \div 86400
        secs == seconds % 86400
        mm0  == secs \div 60
        ss   == secs % 60
        hh   == mm0 \div 60
        mm   == mm0 % 60
        clock == <<ToString(hh), ":", Pad2(mm), ":", Pad2(ss)>>
    IN  IF days = 0 THEN clock
        ELSE <<ToString(days), IF days = 1 THEN " day, " ELSE " days, ">> \o clock

\* format_time with the division by 1000 left out
format_time_no_division(milliseconds) ==
    Join(Replace(str_timedelta(milliseconds), ":", "_"))

\* testyboy.format_time(milliseconds)
format_time(milliseconds) ==
    LET seconds == milliseconds \div 1000 IN
    Join(Replace(str_timedelta(seconds), ":", "_"))

\* pydub.utils.make_chunks(audio, chunk_length) as the two programs call it:
\* ceil(len(audio) / chunk_length) slices audio[i*chunk_length:(i+1)*chunk_length],
\* each given by the milliseconds [lo, hi) it holds.
make_chunks(len_ms, chunk_length) ==
    LET number_of_chunks == (len_ms + chunk_length - 1) \div chunk_length IN
    [k \in 1..number_of_chunks |->
        [lo |-> (k - 1) * chunk_length,
         hi |-> IF k * chunk_length < len_ms THEN k * chunk_length ELSE len_ms]]

\* os.path.splitext(audio_file)[0] of the downloaded file
AudioStem == "audio_file"

\* testyboy.split_audio_into_chunks: the list of chunk file names
split_audio_into_chunks(len_ms, chunk_duration) ==
    LET cs == make_chunks(len_ms, chunk_duration * 1000) IN
    [k \in 1..Len(cs) |->
        AudioStem \o "_chunk_" \o format_time((k - 1) * chunk_duration * 1000)
                  \o ".mp3"]

\* App.split_audio_into_chunks of test_ui.py: {"file", "timestamp"} per chunk
ui_split_audio_into_chunks(len_ms, chunk_duration) ==
    LET cs == make_chunks(len_ms, chunk_duration * 1000) IN
    [k \in 1..Len(cs) |->
        LET start_time == ToString(((k - 1) * chunk_duration) \div 60) \o ":"
                          \o Pad2(((k - 1) * chunk_duration) % 60)
        IN  [file |-> AudioStem \o "_chunk_" \o start_time \o ".mp3",
             timestamp |-> start_time]]

\* chunk_duration=40, the default of both split_audio_into_chunks
DefaultChunkDuration == 40

----------------------------------------------------------------------------
(* The recognition service and analyze_chunk_with_shazam *)

TrackABC   == [key |-> "ABC", title |-> "Song ABC", subtitle |-> "Artist A"]
TrackXYZ   == [key |-> "XYZ", title |-> "Song XYZ", subtitle |-> "Artist X"]
TrackNoKey == [title |-> "Song ?", subtitle |-> "Artist ?"]

\* What shazam.recognize may hand back for one window.  The payload's own
\* "timestamp" is the service's, not the window's offset.
RecognizedPayloads ==
    { [track |-> TrackABC, timestamp |-> "1700000001"],
      [track |-> TrackABC, timestamp |-> "1700000002"],
      [track |-> TrackXYZ, timestamp |-> "1700000003"],
      [track |-> TrackABC],
      [track |-> TrackNoKey, timestamp |-> "1700000004"],
      [matches |-> <<>>, timestamp |-> "1700000005"] }

\* shazam.recognize(file_path): raises, or returns None (no match) or a payload
ServiceOutcomes ==
    { [kind |-> "raise", payload |-> None], [kind |-> "return", payload |-> None] }
    \cup { [kind |-> "return", payload |-> p] : p \in RecognizedPayloads }

\* analyze_chunk_with_shazam without its try/except
analyze_chunk_uncaught(o) ==
    IF o.kind = "raise" THEN Raise("RecognitionError") ELSE Ok(o.payload)

\* analyze_chunk_with_shazam(file_path), given what the service does:
\* except Exception: print(...); return None
analyze_chunk_with_shazam(o) ==
    IF o.kind = "raise" THEN Ok(None) ELSE Ok(o.payload)

----------------------------------------------------------------------------
(* The pipeline: testyboy.main and App.process_pipeline *)

MaxWindows == 3

Urls == {"", "https://youtu.be/mix"}

\* lengths of the downloaded audio, in half windows
AudioLens == {h * (DefaultChunkDuration * 500) : h \in 0..(2 * MaxWindows)}

Running    == [state |-> "running", msg |-> ""]
Success    == [state |-> "success", msg |-> ""]
Failure(m) == [state |-> "error", msg |-> m]

\* track_list after update_track_list(): one item per track of self.tracks
Items(ts) == [k \in 1..Len(ts) |->
                 <<ts[k]["Track Name"], ts[k]["Artist"], ts[k]["Timestamp"]>>]

PipeInit ==
    /\ prog \in {"cli", "ui"}
    /\ url \in Urls
    /\ pc = "start"
    /\ audio_len = 0
    /\ chunks = <<>>
    /\ outcomes = <<>>
    /\ results = <<>>
    /\ resultWin = <<>>
    /\ tracks = <<>>
    /\ tracksSrc = <<>>
    /\ track_list = <<>>
    /\ status = Running

\* test_ui.py lines 62-65: no URL, nothing runs
NoUrl ==
    /\ pc = "start" /\ prog = "ui" /\ url = ""
    /\ pc' = "error"
    /\ status' = Failure("Please enter a YouTube URL.")
    /\ UNCHANGED <<prog, url, audio_len, chunks, outcomes, results, resultWin,
                   tracks, tracksSrc, track_list>>

\* download_youtube_audio: the file, or the exception of line 38, which the
\* except of main / process_pipeline reports
Download ==
    /\ pc = "start" /\ (prog = "ui" => url # "")
    /\ \/ /\ pc' = "error"
          /\ status' = Failure("Error downloading audio")
          /\ UNCHANGED audio_len
       \/ /\ \E len \in AudioLens : audio_len' = len
          /\ pc' = "split"
          /\ UNCHANGED status
    /\ UNCHANGED <<prog, url, chunks, outcomes, results, resultWin, tracks,
                   tracksSrc, track_list>>

Split ==
    /\ pc = "split"
    /\ chunks' = IF prog = "cli"
                 THEN split_audio_into_chunks(audio_len, DefaultChunkDuration)
                 ELSE ui_split_audio_into_chunks(audio_len, DefaultChunkDuration)
    /\ pc' = "loop"
    /\ UNCHANGED <<prog, url, audio_len, outcomes, results, resultWin, tracks,
                   tracksSrc, track_list, status>>

\* One iteration of the loop over chunks (testyboy.py 162-167, test_ui.py 76-79)
Analyze ==
    /\ pc = "loop" /\ Len(outcomes) < Len(chunks)
    /\ \E o \in ServiceOutcomes :
         LET w == Len(outcomes) + 1
             r == analyze_chunk_with_shazam(o)
         IN  /\ outcomes' = Append(outcomes, o)
             /\ IF r.exc # ""
                THEN /\ pc' = "error"
                     /\ status' = Failure(r.exc)
                     /\ UNCHANGED <<results, resultWin>>
                ELSE /\ UNCHANGED <<pc, status>>
                     /\ IF Truthy(r.val)
                        THEN /\ results' = Append(results,
                                    IF prog = "cli" THEN r.val
                                    ELSE [data |-> r.val,
                                          chunk_timestamp |-> chunks[w].timestamp])
                             /\ resultWin' = Append(resultWin, w)
                        ELSE UNCHANGED <<results, resultWin>>
    /\ UNCHANGED <<prog, url, audio_len, chunks, tracks, tracksSrc, track_list>>

\* testyboy.py 173-176: zip(deduplicated_results, results) pairs the j-th kept
\* result with the j-th collected one, whose "timestamp" is read
ExtractZipped(dedup, rs) ==
    IF \E j \in 1..Len(dedup) : "timestamp" \notin DOMAIN rs[j]
    THEN Raise("KeyError: 'timestamp'")
    ELSE Ok([j \in 1..Len(dedup) |-> extract_track_info(dedup[j], rs[j]["timestamp"])])

\* testyboy.py 169-179, after the loop
FinishCli ==
    /\ pc = "loop" /\ Len(outcomes) = Len(chunks) /\ prog = "cli"
    /\ LET d == deduplicate_results(results)
           x == IF d.exc # "" THEN d ELSE ExtractZipped(d.val, results)
       IN  IF x.exc # ""
           THEN /\ pc' = "error"
                /\ status' = Failure(x.exc)
                /\ UNCHANGED <<tracks, tracksSrc>>
           ELSE /\ pc' = "done"
                /\ status' = Success
                /\ tracks' = x.val
                /\ tracksSrc' = DedupRun(results).val
    /\ UNCHANGED <<prog, url, audio_len, chunks, outcomes, results, resultWin,
                   track_list>>

\* test_ui.py 81-86, after the loop
FinishUi ==
    /\ pc = "loop" /\ Len(outcomes) = Len(chunks) /\ prog = "ui"
    /\ tracks' = [j \in 1..Len(results) |->
                     ui_extract_track_info(results[j].data, results[j].chunk_timestamp)]
    /\ tracksSrc' = [j \in 1..Len(results) |-> j]
    /\ track_list' = Items(tracks')
    /\ status' = Success
    /\ pc' = "done"
    /\ UNCHANGED <<prog, url, audio_len, chunks, outcomes, results, resultWin>>

----------------------------------------------------------------------------
(* deduplicate_results on its own: one call, then a call on its own output *)

MaxResults == 3

DedupItems ==
    { None, <<>>,
      [matches |-> <<>>],
      [track |-> <<>>],
      [track |-> TrackNoKey],
      [track |-> TrackABC],
      [track |-> TrackABC, timestamp |-> "1700000001"],
      [track |-> TrackXYZ] }

DedupInit ==
    /\ d_pc = "input"
    /\ d_in \in SeqsUpTo(DedupItems, MaxResults)
    /\ d_out = Ok(<<>>)
    /\ d_out2 = Ok(<<>>)
    /\ seen = {}

DedupCall ==
    /\ d_pc = "input"
    /\ d_out' = deduplicate_results(d_in)
    /\ seen' = DedupRun(d_in).seen
    /\ d_pc' = IF d_out'.exc # "" THEN "raised" ELSE "once"
    /\ UNCHANGED <<d_in, d_out2>>

DedupAgain ==
    /\ d_pc = "once"
    /\ d_out2' = deduplicate_results(d_out.val)
    /\ seen' = DedupRun(d_out.val).seen
    /\ d_pc' = "twice"
    /\ UNCHANGED <<d_in, d_out>>

----------------------------------------------------------------------------
(* The three extract_track_info on one payload *)

MaxSections == 2
MaxMeta == 2

MetaEntries ==
    { [title |-> "Album", text |-> "LP1"],
      [title |-> "Album", text |-> "LP2"],
      [title |-> "Album"],
      [title |-> "Released", text |-> "1999"],
      [title |-> "Released", text |-> "2005"],
      [title |-> "Label", text |-> "Indie"] }

SectionChoices ==
    { [type |-> "SONG"] } \cup
    { [type |-> "SONG", metadata |-> m] : m \in SeqsUpTo(MetaEntries, MaxMeta) }

FullTrack == [key |-> "ABC", title |-> "Song ABC", subtitle |-> "Artist A",
              genres |-> [primary |-> "Pop"]]

\* tracks that differ in the fields read directly
DirectTracks == UNION { [D -> {"v"}] : D \in SUBSET {"title", "subtitle"} }

GenreChoices == { <<>>, [secondary |-> "Rock"], [primary |-> "Pop"] }

ExtractPayloads ==
    { <<>>, [matches |-> <<>>], [track |-> <<>>] }
    \cup { [track |-> t] : t \in DirectTracks \ { <<>> } }
    \cup { [track |-> t @@ [genres |-> g]] : t \in DirectTracks, g \in GenreChoices }
    \cup { [track |-> FullTrack @@ [sections |-> ss]] :
               ss \in SeqsUpTo(SectionChoices, MaxSections) }

ExtInit ==
    /\ e_pc = {}
    /\ e_in \in [entry : ExtractPayloads, timestamp : {"0:00", "0:40"}]
    /\ e_cli = <<>>
    /\ e_clean = Ok(<<>>)
    /\ e_ui = <<>>

ExtractCli ==
    /\ "cli" \notin e_pc
    /\ e_cli' = extract_track_info(e_in.entry, e_in.timestamp)
    /\ e_pc' = e_pc \cup {"cli"}
    /\ UNCHANGED <<e_in, e_clean, e_ui>>

ExtractClean ==
    /\ "clean" \notin e_pc
    /\ e_clean' = clean_extract_track_info(<<e_in.entry>>)
    /\ e_pc' = e_pc \cup {"clean"}
    /\ UNCHANGED <<e_in, e_cli, e_ui>>

ExtractUi ==
    /\ "ui" \notin e_pc
    /\ e_ui' = ui_extract_track_info(e_in.entry, e_in.timestamp)
    /\ e_pc' = e_pc \cup {"ui"}
    /\ UNCHANGED <<e_in, e_cli, e_clean>>

----------------------------------------------------------------------------
(* split_audio_into_chunks on its own *)

MaxFullWindows == 3

\* chunk_duration, in seconds
WindowDurations == {1, 7, DefaultChunkDuration, 45, 3600, 43200, 86400}

\* len(audio): whole windows, one millisecond more, one millisecond less
AudioDurations(w) ==
    { k * w * 1000 + r : k \in 0..MaxFullWindows, r \in {0, 1, w * 1000 - 1} }

\* the files on disk after the loop of chunk.export: a later export under
\* the same name replaces the earlier one
Exported(names, windows) ==
    { [file |-> names[k], lo |-> windows[k].lo, hi |-> windows[k].hi] :
        k \in { k \in 1..Len(names) :
                  \A k2 \in (k + 1)..Len(names) : names[k2] # names[k] } }

SplitInit ==
    /\ s_pc = {}
    /\ s_w \in WindowDurations
    /\ s_D \in AudioDurations(s_w)
    /\ s_cli = [paths |-> <<>>, files |-> {}]
    /\ s_ui = [paths |-> <<>>, files |-> {}]

SplitCli ==
    /\ "cli" \notin s_pc
    /\ LET paths == split_audio_into_chunks(s_D, s_w) IN
       s_cli' = [paths |-> paths,
                 files |-> Exported(paths, make_chunks(s_D, s_w * 1000))]
    /\ s_pc' = s_pc \cup {"cli"}
    /\ UNCHANGED <<s_D, s_w, s_ui>>

SplitUi ==
    /\ "ui" \notin s_pc
    /\ LET paths == ui_split_audio_into_chunks(s_D, s_w) IN
       s_ui' = [paths |-> paths,
                files |-> Exported([k \in 1..Len(paths) |-> paths[k].file],
                                   make_chunks(s_D, s_w * 1000))]
    /\ s_pc' = s_pc \cup {"ui"}
    /\ UNCHANGED <<s_D, s_w, s_cli>>

----------------------------------------------------------------------------
(* App.on_track_click and App.slskd_search *)

MaxCandidates == 2

TrackNames == {"Song ABC", "Song XYZ", "Unknown"}

Candidates ==
    { [username |-> "alice", path |-> "music/abc.mp3", filesize |-> "4096"],
      [username |-> "bob", path |-> "abc.flac", filesize |-> "9000"],
      [username |-> "carol", path |-> "xyz.mp3", filesize |-> "512"] }

\* the subclasses of requests.RequestException that requests.post and
\* raise_for_status raise
RequestExceptions == {"ConnectionError", "Timeout", "HTTPError"}

\* str(e) of the exception raised
Messages(kind) ==
    IF kind = "ConnectionError" THEN {"Connection refused", "Name or service not known"}
    ELSE IF kind = "Timeout" THEN {"Connect timed out", "Read timed out"}
    ELSE {"500 Server Error", "404 Client Error"}

\* what requests.post / raise_for_status / response.json() do
TransportOutcomes ==
    UNION { [kind : {k}, msg : Messages(k), json : {<<>>}] : k \in RequestExceptions }
    \cup { [kind |-> "ok", msg |-> "", json |-> [jsonrpc |-> "2.0"]] }
    \cup { [kind |-> "ok", msg |-> "", json |-> [jsonrpc |-> "2.0", result |-> r]] :
             r \in SeqsUpTo(Candidates, MaxCandidates) }

Pending == [kind |-> "pending", msg |-> "", json |-> <<>>]

\* slskd_search with `except requests.ConnectionError` in place of line 177
slskd_search_connection_only(track_name, o) ==
    IF o.kind = "ok" THEN Ok(Get(o.json, "result", <<>>))
    ELSE IF o.kind = "ConnectionError"
         THEN Ok(<<[username |-> "Error", path |-> o.msg, filesize |-> "N/A"]>>)
         ELSE Raise(o.kind)

\* App.slskd_search(track_name), given what the transport does
slskd_search(track_name, o) ==
    IF o.kind = "ok" THEN Ok(Get(o.json, "result", <<>>))
    ELSE IF o.kind \in RequestExceptions
         THEN Ok(<<[username |-> "Error", path |-> o.msg, filesize |-> "N/A"]>>)
         ELSE Raise(o.kind)

\* lines 100-107: what on_track_click appends for `rs`
RECURSIVE ResultLines(_)
ResultLines(rs) ==
    IF rs = <<>> THEN <<>>
    ELSE << "User: " \o Head(rs).username, "File: " \o Head(rs).path,
            "Size: " \o Head(rs).filesize \o " bytes", "----" >>
         \o ResultLines(Tail(rs))

SearchInit ==
    /\ q_pc = "idle"
    /\ q_name = ""
    /\ q_transport = Pending
    /\ q_candidates = <<>>
    /\ results_text = <<>>

\* on_track_click, lines 97-98: the item's first column is searched for
Click ==
    /\ q_pc = "idle"
    /\ \E name \in TrackNames :
         /\ q_name' = name
         /\ results_text' = << "Searching Soulseek for: " \o name >>
    /\ q_transport' = Pending
    /\ q_candidates' = <<>>
    /\ q_pc' = "request"

\* line 99: results = self.slskd_search(track_name)
Respond ==
    /\ q_pc = "request"
    /\ \E o \in TransportOutcomes :
         LET r == slskd_search(q_name, o) IN
         /\ q_transport' = o
         /\ q_candidates' = r.val
         /\ q_pc' = IF r.exc # "" THEN "raised" ELSE "returned"
    /\ UNCHANGED <<q_name, results_text>>

\* lines 100-107
Show ==
    /\ q_pc = "returned"
    /\ results_text' = results_text \o
          (IF q_candidates # <<>> THEN ResultLines(q_candidates)
           ELSE << "No results found for '" \o q_name \o "'." >>)
    /\ q_pc' = "idle"
    /\ UNCHANGED <<q_name, q_transport, q_candidates>>

----------------------------------------------------------------------------
(* One App, start_processing pressed several times: each press starts a    *)
(* thread that runs process_pipeline; the threads share self.tracks, the   *)
(* track list and the status label, and interleave between statements.     *)

MaxThreads == 2
MaxUiWindows == 2

Threads == 1..MaxThreads

\* what lines 70-84 of one run can compute: per window nothing, or a track
UiRunTracks ==
    { LET cs  == ui_split_audio_into_chunks(MaxUiWindows * DefaultChunkDuration * 1000,
                                            DefaultChunkDuration)
          hit == SelectSeq([k \in 1..MaxUiWindows |-> k], LAMBDA k : c[k] # "none")
      IN  [j \in 1..Len(hit) |->
              ui_extract_track_info(
                  [track |-> IF c[hit[j]] = "ABC" THEN TrackABC ELSE TrackXYZ],
                  cs[hit[j]].timestamp)] :
      c \in [1..MaxUiWindows -> {"none", "ABC", "XYZ"}] }

ThreadsInit ==
    /\ t_pc = [t \in Threads |-> "idle"]
    /\ t_tracks = [t \in Threads |-> <<>>]
    /\ t_iter = [t \in Threads |-> [list |-> <<>>, pos |-> 0]]
    /\ tracks = <<>>
    /\ track_list = <<>>
    /\ status = Running

\* line 59
start_processing(t) ==
    /\ t_pc[t] = "idle"
    /\ t_pc' = [t_pc EXCEPT ![t] = "pipeline"]
    /\ UNCHANGED <<t_tracks, t_iter, tracks, track_list, status>>

\* lines 62-84 up to the list comprehension, or the except of line 87
RunPipeline(t) ==
    /\ t_pc[t] = "pipeline"
    /\ \/ /\ t_pc' = [t_pc EXCEPT ![t] = "done"]
          /\ status' = Failure("Error downloading audio")
          /\ UNCHANGED t_tracks
       \/ /\ \E ts \in UiRunTracks : t_tracks' = [t_tracks EXCEPT ![t] = ts]
          /\ t_pc' = [t_pc EXCEPT ![t] = "assign"]
          /\ status' = Running
    /\ UNCHANGED <<t_iter, tracks, track_list>>

\* line 81: self.tracks = [...]
AssignTracks(t) ==
    /\ t_pc[t] = "assign"
    /\ tracks' = t_tracks[t]
    /\ t_pc' = [t_pc EXCEPT ![t] = "clear"]
    /\ UNCHANGED <<t_tracks, t_iter, track_list, status>>

\* line 91: self.track_list.clear()
ClearList(t) ==
    /\ t_pc[t] = "clear"
    /\ track_list' = <<>>
    /\ t_pc' = [t_pc EXCEPT ![t] = "iter"]
    /\ UNCHANGED <<t_tracks, t_iter, tracks, status>>

\* line 92: `for track in self.tracks` takes an iterator over the list that
\* self.tracks names at this moment
StartLoop(t) ==
    /\ t_pc[t] = "iter"
    /\ t_iter' = [t_iter EXCEPT ![t] = [list |-> tracks, pos |-> 0]]
    /\ t_pc' = [t_pc EXCEPT ![t] = "add"]
    /\ UNCHANGED <<t_tracks, tracks, track_list, status>>

\* lines 92-94: one iteration, or the end of the loop
AddItem(t) ==
    /\ t_pc[t] = "add"
    /\ IF t_iter[t].pos < Len(t_iter[t].list)
       THEN /\ track_list' = track_list \o Items(<<t_iter[t].list[t_iter[t].pos + 1]>>)
            /\ t_iter' = [t_iter EXCEPT ![t].pos = @ + 1]
            /\ UNCHANGED t_pc
       ELSE /\ t_pc' = [t_pc EXCEPT ![t] = "label"]
            /\ UNCHANGED <<track_list, t_iter>>
    /\ UNCHANGED <<t_tracks, tracks, status>>

\* line 86
SetComplete(t) ==
    /\ t_pc[t] = "label"
    /\ status' = Success
    /\ t_pc' = [t_pc EXCEPT ![t] = "done"]
    /\ UNCHANGED <<t_tracks, t_iter, tracks, track_list>>

----------------------------------------------------------------------------
(* Specifications.  Each one runs one part; the variables of the other     *)
(* parts stay at rest.                                                     *)

PipeOff ==
    /\ prog = "cli" /\ pc = "off" /\ url = "" /\ audio_len = 0
    /\ chunks = <<>> /\ outcomes = <<>> /\ results = <<>> /\ resultWin = <<>>
    /\ tracksSrc = <<>>
SharedOff == tracks = <<>> /\ track_list = <<>> /\ status = Running
DedupOff ==
    d_pc = "off" /\ d_in = <<>> /\ d_out = Ok(<<>>) /\ d_out2 = Ok(<<>>) /\ seen = {}
ExtOff ==
    /\ e_pc = {} /\ e_in = [entry |-> <<>>, timestamp |-> ""]
    /\ e_cli = <<>> /\ e_clean = Ok(<<>>) /\ e_ui = <<>>
SplitOff ==
    /\ s_pc = {} /\ s_D = 0 /\ s_w = 0
    /\ s_cli = [paths |-> <<>>, files |-> {}] /\ s_ui = [paths |-> <<>>, files |-> {}]
SearchOff ==
    /\ q_pc = "off" /\ q_name = "" /\ q_transport = Pending
    /\ q_candidates = <<>> /\ results_text = <<>>
ThreadsOff ==
    /\ t_pc = <<>> /\ t_tracks = <<>> /\ t_iter = <<>>

Init == PipeInit /\ DedupOff /\ ExtOff /\ SplitOff /\ SearchOff /\ ThreadsOff
Next ==
    \/ NoUrl /\ UNCHANGED <<dedupVars, extVars, splitVars, searchVars, uiVars>>
    \/ Download /\ UNCHANGED <<dedupVars, extVars, splitVars, searchVars, uiVars>>
    \/ Split /\ UNCHANGED <<dedupVars, extVars, splitVars, searchVars, uiVars>>
    \/ Analyze /\ UNCHANGED <<dedupVars, extVars, splitVars, searchVars, uiVars>>
    \/ FinishCli /\ UNCHANGED <<dedupVars, extVars, splitVars, searchVars, uiVars>>
    \/ FinishUi /\ UNCHANGED <<dedupVars, extVars, splitVars, searchVars, uiVars>>
Spec == Init /\ [][Next]_vars

InitDedup ==
    DedupInit /\ PipeOff /\ SharedOff /\ ExtOff /\ SplitOff /\ SearchOff /\ ThreadsOff
NextDedup ==
    \/ DedupCall /\ UNCHANGED <<pipeVars, extVars, splitVars, searchVars, uiVars>>
    \/ DedupAgain /\ UNCHANGED <<pipeVars, extVars, splitVars, searchVars, uiVars>>
SpecDedup == InitDedup /\ [][NextDedup]_vars

InitExtract ==
    ExtInit /\ PipeOff /\ SharedOff /\ DedupOff /\ SplitOff /\ SearchOff /\ ThreadsOff
NextExtract ==
    \/ ExtractCli /\ UNCHANGED <<pipeVars, dedupVars, splitVars, searchVars, uiVars>>
    \/ ExtractClean /\ UNCHANGED <<pipeVars, dedupVars, splitVars, searchVars, uiVars>>
    \/ ExtractUi /\ UNCHANGED <<pipeVars, dedupVars, splitVars, searchVars, uiVars>>
SpecExtract == InitExtract /\ [][NextExtract]_vars

InitSplit ==
    SplitInit /\ PipeOff /\ SharedOff /\ DedupOff /\ ExtOff /\ SearchOff /\ ThreadsOff
NextSplit ==
    \/ SplitCli /\ UNCHANGED <<pipeVars, dedupVars, extVars, searchVars, uiVars>>
    \/ SplitUi /\ UNCHANGED <<pipeVars, dedupVars, extVars, searchVars, uiVars>>
SpecSplit == InitSplit /\ [][NextSplit]_vars

InitSearch ==
    SearchInit /\ PipeOff /\ SharedOff /\ DedupOff /\ ExtOff /\ SplitOff /\ ThreadsOff
NextSearch ==
    \/ Click /\ UNCHANGED <<pipeVars, dedupVars, extVars, splitVars, uiVars>>
    \/ Respond /\ UNCHANGED <<pipeVars, dedupVars, extVars, splitVars, uiVars>>
    \/ Show /\ UNCHANGED <<pipeVars, dedupVars, extVars, splitVars, uiVars>>
SpecSearch == InitSearch /\ [][NextSearch]_vars

restOfPipe == <<prog, pc, url, audio_len, chunks, outcomes, results, resultWin,
                tracksSrc>>
InitThreads ==
    ThreadsInit /\ PipeOff /\ DedupOff /\ ExtOff /\ SplitOff /\ SearchOff
otherVars == <<restOfPipe, dedupVars, extVars, splitVars, searchVars>>
NextThreads ==
    \/ \E t \in Threads : start_processing(t) /\ UNCHANGED otherVars
    \/ \E t \in Threads : RunPipeline(t) /\ UNCHANGED otherVars
    \/ \E t \in Threads : AssignTracks(t) /\ UNCHANGED otherVars
    \/ \E t \in Threads : ClearList(t) /\ UNCHANGED otherVars
    \/ \E t \in Threads : StartLoop(t) /\ UNCHANGED otherVars
    \/ \E t \in Threads : AddItem(t) /\ UNCHANGED otherVars
    \/ \E t \in Threads : SetComplete(t) /\ UNCHANGED otherVars
SpecThreads == InitThreads /\ [][NextThreads]_vars

----------------------------------------------------------------------------
(* Properties of the pipeline (Spec) *)

\* the payload behind the k-th element of results
PayloadOf(k) == IF prog = "cli" THEN results[k] ELSE results[k].data

\* the track identity of a payload, NoneText when it has none
KeyOf(p) == Get(Get(p, "track", <<>>), "key", NoneText)

EntryKey(j) == KeyOf(PayloadOf(tracksSrc[j]))
EntryWin(j) == resultWin[tracksSrc[j]]

\* the windows whose recognition returned a payload with this identity
WindowsOf(key) ==
    { w \in 1..Len(outcomes) :
        outcomes[w].kind = "return" /\ KeyOf(outcomes[w].payload) = key }

FirstWindowOf(key) == CHOOSE w \in WindowsOf(key) : \A v \in WindowsOf(key) : w <= v

\* C1: in every finished run of either program the track list holds at most
\* one entry per track identity, each entry comes from the first window that
\* recognized its identity, and the entries are in ascending window order.
C1_OneEntryPerIdentity ==
    pc = "done" =>
      /\ \A j1, j2 \in 1..Len(tracks) :
            (j1 < j2 /\ EntryKey(j1) # NoneText) => EntryKey(j1) # EntryKey(j2)
      /\ \A j \in 1..Len(tracks) :
            EntryKey(j) # NoneText => EntryWin(j) = FirstWindowOf(EntryKey(j))
      /\ \A j1, j2 \in 1..Len(tracks) : j1 < j2 => EntryWin(j1) < EntryWin(j2)

\* the start offset of window w as the program writes it
WindowOffset(w) ==
    IF prog = "ui" THEN chunks[w].timestamp
    ELSE format_time((w - 1) * DefaultChunkDuration * 1000)

OutcomeKeys == [w \in 1..Len(outcomes) |->
                   IF outcomes[w].kind = "return" THEN KeyOf(outcomes[w].payload)
                   ELSE NoneText]

\* C2: every entry of the final list carries the start offset of the window
\* that first produced its track; windows recognizing ABC, XYZ, ABC give
\* exactly ABC at window 0's offset, then XYZ at window 1's offset.
C2_TimestampOfFirstWindow ==
    pc = "done" =>
      /\ \A j \in 1..Len(tracks) : tracks[j]["Timestamp"] = WindowOffset(EntryWin(j))
      /\ OutcomeKeys = <<"ABC", "XYZ", "ABC">> =>
            /\ Len(tracks) = 2
            /\ tracks[1]["Track Name"] = "Song ABC"
            /\ tracks[1]["Timestamp"] = WindowOffset(1)
            /\ tracks[2]["Track Name"] = "Song XYZ"
            /\ tracks[2]["Timestamp"] = WindowOffset(2)

\* a window whose recognition call raised or returned no match
Failed(o) == o.kind = "raise" \/ ~Truthy(o.payload)

\* the windows seen so far that did not fail, in ascending order
Surviving == SelectSeq([w \in 1..Len(outcomes) |-> w], LAMBDA w : ~Failed(outcomes[w]))

\* C4: whatever windows fail, the loop collects exactly the outcomes of the
\* other windows in ascending window order; no recognition failure ends the
\* run in its error state; a finished run has dispatched every window; and
\* when every window failed the run ends in success with an empty list.
C4_FailureIsolation ==
    /\ resultWin = Surviving
    /\ \A k \in 1..Len(results) : PayloadOf(k) = outcomes[resultWin[k]].payload
    /\ status.state = "error" => status.msg # "RecognitionError"
    /\ pc = "done" => Len(outcomes) = Len(chunks)
    /\ ( /\ pc \in {"done", "error"}
         /\ Len(chunks) > 0
         /\ Len(outcomes) = Len(chunks)
         /\ \A w \in 1..Len(outcomes) : Failed(outcomes[w]) )
       => (pc = "done" /\ tracks = <<>> /\ status = Success)

\* a finished run of three windows: the first raised, the second had no
\* match, the third was recognized and is the only outcome collected
C4_Witness ==
    /\ pc = "done" /\ Len(outcomes) = 3
    /\ outcomes[1].kind = "raise"
    /\ outcomes[2] = [kind |-> "return", payload |-> None]
    /\ ~Failed(outcomes[3])
    /\ resultWin = <<3>>
    /\ Len(tracks) = 1

----------------------------------------------------------------------------
(* Properties of deduplicate_results (SpecDedup) *)

HasIdentity(r) == Truthy(r) /\ Truthy(Get(r, "track", None)) /\ "key" \in DOMAIN r["track"]

AllKeyed(rs) ==
    \A i \in 1..Len(rs) : Truthy(rs[i]) /\ "track" \in DOMAIN rs[i]
                          /\ "key" \in DOMAIN rs[i]["track"]

\* the first occurrence of each key, in input order
RECURSIVE FirstOccFrom(_, _)
FirstOccFrom(rs, i) ==
    IF i > Len(rs) THEN <<>>
    ELSE (IF \E j \in 1..(i - 1) : rs[j]["track"]["key"] = rs[i]["track"]["key"]
          THEN <<>> ELSE <<rs[i]>>) \o FirstOccFrom(rs, i + 1)

FirstOccurrences(rs) == FirstOccFrom(rs, 1)

\* C3: on a list whose results all have a track with a key,
\* deduplicate_results returns the first occurrence of each key in input
\* order, and a second invocation on that output returns it unchanged.
C3_FirstOccurrenceIdempotent ==
    AllKeyed(d_in) =>
      /\ d_pc # "raised"
      /\ d_pc \in {"once", "twice"} => d_out = Ok(FirstOccurrences(d_in))
      /\ d_pc = "twice" => d_out2 = d_out

C3_Witness ==
    /\ d_pc = "twice" /\ AllKeyed(d_in) /\ Len(d_in) = 3
    /\ d_in[1]["track"]["key"] = "ABC" /\ d_in[2]["track"]["key"] = "XYZ"
    /\ d_in[3]["track"]["key"] = "ABC"
    /\ Len(d_out.val) = 2

\* C9: deduplicate_results never raises, and returns what it returns for the
\* input without its identity-less outcomes (None, no track, no key).
C9_IdentitylessDropped ==
    d_pc # "input" =>
      d_out = Ok(FirstOccurrences(SelectSeq(d_in, HasIdentity)))

----------------------------------------------------------------------------
(* Properties of extract_track_info (SpecExtract) *)

SixFields == {"Track Name", "Artist", "Album", "Genre", "Year Released", "Timestamp"}

InTrack == Get(e_in.entry, "track", <<>>)
InSections == Get(InTrack, "sections", <<>>)
MetaOf(i) == Get(InSections[i], "metadata", <<>>)

\* the places <<section, entry>> of the metadata entries with this key
PlacesOf(key) ==
    UNION { { <<i, j>> : j \in { j \in 1..Len(MetaOf(i)) :
                                  Get(MetaOf(i)[j], "title", NoneText) = key } } :
            i \in 1..Len(InSections) }

FirstPlace(key) ==
    CHOOSE p \in PlacesOf(key) :
        \A q \in PlacesOf(key) : p[1] < q[1] \/ (p[1] = q[1] /\ p[2] <= q[2])

NoText(key) == \A p \in PlacesOf(key) : "text" \notin DOMAIN MetaOf(p[1])[p[2]]

DefaultsIn(r, titleDefault) ==
    /\ DOMAIN r = SixFields
    /\ "title" \notin DOMAIN InTrack => r["Track Name"] = titleDefault
    /\ "subtitle" \notin DOMAIN InTrack => r["Artist"] = "Unknown Artist"
    /\ "primary" \notin DOMAIN Get(InTrack, "genres", <<>>) => r["Genre"] = "Unknown Genre"
    /\ NoText("Album") => r["Album"] = "Unknown Album"
    /\ NoText("Released") => r["Year Released"] = "Unknown Year"
    /\ r["Timestamp"] = e_in.timestamp

\* C5: on every payload each extract_track_info returns, without raising,
\* one record with all six fields, every absent field at its documented
\* default, the title placeholder being the same in all of them.
C5_ExtractionTotal ==
    \E titleDefault \in {"Unknown Title", "Unknown Track Name"} :
      /\ "cli" \in e_pc => DefaultsIn(e_cli, titleDefault)
      /\ "clean" \in e_pc =>
            /\ e_clean.exc = ""
            /\ Len(e_clean.val) = 1
            /\ DefaultsIn(e_clean.val[1] @@ ("Timestamp" :> e_in.timestamp), titleDefault)
      /\ "ui" \in e_pc => DefaultsIn(e_ui, titleDefault)

FirstText(key, default) ==
    IF PlacesOf(key) = {} THEN default
    ELSE MetaOf(FirstPlace(key)[1])[FirstPlace(key)[2]]["text"]

AllHaveText(key) == \A p \in PlacesOf(key) : "text" \in DOMAIN MetaOf(p[1])[p[2]]

\* C6: the album is the text of the first "Album" entry over all sections in
\* order, the release year that of the first "Released" entry; the default
\* only when no section has the key.
C6_FirstEntryAcrossSections ==
    (AllHaveText("Album") /\ AllHaveText("Released")) =>
      /\ "cli" \in e_pc =>
            /\ e_cli["Album"] = FirstText("Album", "Unknown Album")
            /\ e_cli["Year Released"] = FirstText("Released", "Unknown Year")
      /\ ("clean" \in e_pc /\ e_clean.exc = "" /\ Len(e_clean.val) = 1) =>
            /\ e_clean.val[1]["Album"] = FirstText("Album", "Unknown Album")
            /\ e_clean.val[1]["Year Released"] = FirstText("Released", "Unknown Year")

----------------------------------------------------------------------------
(* Properties of split_audio_into_chunks (SpecSplit) *)

CeilDiv(a, b) == IF a % b = 0 THEN a \div b ELSE a \div b + 1

TwoDigits(n) == IF n < 10 THEN "0" \o ToString(n) ELSE ToString(n)

\* an offset in seconds as the name of a testyboy.py chunk writes it:
\* [D day(s), ]H_MM_SS
CliOffsetText(sec) ==
    (IF sec < 86400 THEN ""
     ELSE ToString(sec \div 86400)
          \o (IF sec \div 86400 = 1 THEN " day, " ELSE " days, "))
    \o ToString((sec % 86400) \div 3600) \o "_" \o TwoDigits((sec % 3600) \div 60)
    \o "_" \o TwoDigits(sec % 60)

\* an offset in seconds as test_ui.py writes it: M:SS
UiOffsetText(sec) == ToString(sec \div 60) \o ":" \o TwoDigits(sec % 60)

\* `names` are ceil(D/w) file names, the k-th written from offset (k-1)*w,
\* all distinct, and the files hold consecutive windows of length w that
\* cover [0, D), the last one ending at D
WindowsOk(names, files, OffsetText(_)) ==
    LET n == Len(names)
        W == s_w * 1000
    IN  /\ n = CeilDiv(s_D, W)
        /\ \A k \in 1..n :
              names[k] = "audio_file_chunk_" \o OffsetText((k - 1) * s_w) \o ".mp3"
        /\ \A k1, k2 \in 1..n : k1 # k2 => names[k1] # names[k2]
        /\ Cardinality(files) = n
        /\ \A k \in 1..n :
              \E f \in files :
                 /\ f.file = names[k]
                 /\ f.lo = (k - 1) * W
                 /\ f.lo < f.hi
                 /\ k < n => f.hi = k * W
                 /\ k = n => f.hi = s_D

\* C7: for a duration D and a window of w seconds both programs return
\* ceil(D/w) windows in index order, window i reported with offset i*w under
\* a name and an offset no other window has, and the windows cover [0, D),
\* only the last one possibly shorter than w.
C7_Segmentation ==
    /\ "cli" \in s_pc => WindowsOk(s_cli.paths, s_cli.files, CliOffsetText)
    /\ "ui" \in s_pc =>
          /\ WindowsOk([k \in 1..Len(s_ui.paths) |-> s_ui.paths[k].file],
                       s_ui.files, UiOffsetText)
          /\ \A k \in 1..Len(s_ui.paths) :
                s_ui.paths[k].timestamp = UiOffsetText((k - 1) * s_w)
          /\ \A k1, k2 \in 1..Len(s_ui.paths) :
                k1 # k2 => s_ui.paths[k1].timestamp # s_ui.paths[k2].timestamp

\* three whole windows of a day each and one millisecond more
C7_Witness ==
    /\ s_pc = {"cli", "ui"}
    /\ s_w = 86400 /\ s_D = 3 * 86400 * 1000 + 1
    /\ Len(s_cli.paths) = 4 /\ Len(s_ui.paths) = 4
    /\ s_cli.paths[2] = "audio_file_chunk_1 day, 0_00_00.mp3"
    /\ s_ui.paths[2].timestamp = "1440:00"

----------------------------------------------------------------------------
(* Properties of slskd_search (SpecSearch) *)

\* C8: when the request fails with a connection error, a timeout or an HTTP
\* error status, slskd_search raises nothing and returns exactly one
\* candidate, of owner "Error", whose path is the error message.
C8_ErrorAsData ==
    /\ q_pc # "raised"
    /\ q_transport.kind \in {"ConnectionError", "Timeout", "HTTPError"} =>
          /\ Len(q_candidates) = 1
          /\ q_candidates[1].username = "Error"
          /\ q_candidates[1].path = q_transport.msg

C8_Witness ==
    /\ q_pc = "returned"
    /\ q_transport.kind = "Timeout"
    /\ q_candidates = <<[username |-> "Error", path |-> "Read timed out",
                         filesize |-> "N/A"]>>

----------------------------------------------------------------------------
(* Properties of concurrent runs (SpecThreads) *)

\* C10: once every process_pipeline thread has finished, the track list
\* shows exactly the entries of self.tracks, each once and in order.
C10_ListShowsTracks ==
    (\A t \in Threads : t_pc[t] = "done") => track_list = Items(tracks)

====
